---- MODULE Spec2Model ----
(***************************************************************************)
(* A model of django-newsletter's submission and bounce-handling pipeline: *)
(* newsletter/models.py (Subscription, Bounce, Submission) and             *)
(* newsletter/bounces.py (check_bounces).                                  *)
(*                                                                         *)
(* Text values are sequences of one-character strings, so that the regex,  *)
(* strip(), replace(), startswith() and iexact are computed character by   *)
(* character.  An optional value (a header that may be missing, a Python   *)
(* None) is <<>> when missing and <<v>> when present.                      *)
(***************************************************************************)
EXTENDS Integers, Sequences, FiniteSets, TLC

----------------------------------------------------------------------------
(* Text helpers: the Python str methods the code calls.                    *)

Absent == <<>>

Some(v) == <<v>>

\* The least index i >= from with s[i] = c, or 0 when there is none.
RECURSIVE Find(_, _, _)
Find(s, c, from) ==
    IF from > Len(s) THEN 0
    ELSE IF s[from] = c THEN from
    ELSE Find(s, c, from + 1)

\* str.startswith
StartsWith(s, pre) ==
    /\ Len(pre) <= Len(s)
    /\ SubSeq(s, 1, Len(pre)) = pre

\* pat in s
RECURSIVE Contains(_, _)
Contains(s, pat) ==
    IF Len(s) < Len(pat) THEN FALSE
    ELSE IF StartsWith(s, pat) THEN TRUE
    ELSE Contains(Tail(s), pat)

\* s.replace(pat, ''): every non-overlapping occurrence, left to right.
RECURSIVE RemoveAll(_, _)
RemoveAll(s, pat) ==
    IF Len(s) < Len(pat) \/ Len(pat) = 0 THEN s
    ELSE IF StartsWith(s, pat) THEN RemoveAll(SubSeq(s, Len(pat) + 1, Len(s)), pat)
    ELSE <<Head(s)>> \o RemoveAll(Tail(s), pat)

IsSpace(c) == c \in {" ", "\t", "\n", "\r"}

RECURSIVE LStrip(_)
LStrip(s) ==
    IF s # <<>> /\ IsSpace(Head(s)) THEN LStrip(Tail(s)) ELSE s

RECURSIVE RStrip(_)
RStrip(s) ==
    IF s # <<>> /\ IsSpace(s[Len(s)]) THEN RStrip(SubSeq(s, 1, Len(s) - 1)) ELSE s

\* str.strip()
Strip(s) == RStrip(LStrip(s))

\* The case folding behind __iexact, on the letters the model uses.
LowerChar(c) ==
    CASE c = "U" -> "u"
      [] c = "V" -> "v"
      [] c = "H" -> "h"
      [] OTHER -> c

Lower(s) == [i \in 1..Len(s) |-> LowerChar(s[i])]

IExact(a, b) == Lower(a) = Lower(b)

----------------------------------------------------------------------------
(* The VERP codec.                                                         *)

\* verp_re.match(s): the pattern is anchored at the start only.  [^\+]+ runs
\* to the first '+', (?P<user>[^=]+) from there to the next '=',
\* (?P<domain>[^@]+) from there to the next '@', and .+ needs one more
\* character that is not a newline.  Each class needs at least one character.
verp_re_match(s) ==
    LET p == Find(s, "+", 1)
        q == IF p = 0 THEN 0 ELSE Find(s, "=", p + 1)
        r == IF q = 0 THEN 0 ELSE Find(s, "@", q + 1)
    IN  IF /\ p > 1
           /\ q > p + 1
           /\ r > q + 1
           /\ r < Len(s)
           /\ s[r + 1] # "\n"
        THEN Some([user |-> SubSeq(s, p + 1, q - 1), domain |-> SubSeq(s, q + 1, r - 1)])
        ELSE Absent

\* The part of an address before its '@' and the part after it.
LocalPart(a) == SubSeq(a, 1, Find(a, "@", 1) - 1)

DomainPart(a) == SubSeq(a, Find(a, "@", 1) + 1, Len(a))

\* utils.as_verp: local@domain and user@host give local+user=host@domain;
\* no bounce address gives None.
as_verp(bounce_address, to_address) ==
    IF bounce_address = Absent THEN Absent
    ELSE Some(LocalPart(bounce_address[1]) \o <<"+">> \o LocalPart(to_address)
              \o <<"=">> \o DomainPart(to_address) \o <<"@">>
              \o DomainPart(bounce_address[1]))

----------------------------------------------------------------------------
(* A bounce mail, as EmailParser().parsestr reads it.                      *)
(*   to : the To header, Absent when the mail has none                     *)
(*   ds : Absent when no part is message/delivery-status, else Some(the    *)
(*        sequence of header blocks that part.walk() yields after the part *)
(*        itself); a block holds its Original-Recipient, Final-Recipient   *)
(*        and Status headers, each Absent or Some(text).                   *)

MAILBOX_FULL == <<"5", ".", "2", ".", "2">>

RFC822 == <<"r", "f", "c", "8", "2", "2", ";">>

\* A block read with Final-Recipient before Original-Recipient.
SubpartAddrFinalFirst(addr, subpart) ==
    IF addr # <<>> THEN addr
    ELSE LET a == IF subpart.final # Absent THEN Strip(subpart.final[1])
                   ELSE IF subpart.orig # Absent THEN Strip(subpart.orig[1])
                   ELSE addr
         IN  IF a # <<>> /\ Contains(a, RFC822) THEN RemoveAll(a, RFC822) ELSE a

\* Lines 62-68 for one block: the address is taken only while none is known,
\* Original-Recipient before Final-Recipient, stripped, 'rfc822;' removed.
SubpartAddr(addr, subpart) ==
    IF addr # <<>> THEN addr
    ELSE LET a == IF subpart.orig # Absent THEN Strip(subpart.orig[1])
                   ELSE IF subpart.final # Absent THEN Strip(subpart.final[1])
                   ELSE addr
         IN  IF a # <<>> /\ Contains(a, RFC822) THEN RemoveAll(a, RFC822) ELSE a

\* Lines 69-70 for one block.
SubpartStatus(status, subpart) ==
    IF subpart.status # Absent THEN subpart.status[1] ELSE status

\* Lines 61-72: the walk over the blocks, left as soon as both are known.
RECURSIVE WalkSubparts(_, _, _)
WalkSubparts(addr, status, subparts) ==
    IF subparts = <<>> THEN [addr |-> addr, status |-> status]
    ELSE LET a == SubpartAddr(addr, Head(subparts))
             s == SubpartStatus(status, Head(subparts))
         IN  IF a # <<>> /\ s # <<>> THEN [addr |-> a, status |-> s]
             ELSE WalkSubparts(a, s, Tail(subparts))

\* Lines 54-57: the address that the VERP pattern recovers from the To
\* header, '' when it does not match.
VerpAddr(ndr_to) ==
    LET res == verp_re_match(ndr_to)
    IN  IF res # Absent THEN res[1].user \o <<"@">> \o res[1].domain ELSE <<>>

\* Lines 51-73 for one mail with a To header: addr and status, '' standing
\* for what was not recovered (the code tests both for truth only).
Extract(msgobj) ==
    LET addr == VerpAddr(msgobj.to[1])
    IN  IF msgobj.ds = Absent THEN [addr |-> addr, status |-> <<>>]
        ELSE WalkSubparts(addr, <<>>, msgobj.ds[1])

\* A classification that takes every 5.x.x status as permanent, mailbox
\* full included.
IsPermanent(status) == StartsWith(status, <<"5">>)

\* Line 79.
IsHard(status) == StartsWith(status, <<"5">>) /\ status # MAILBOX_FULL

----------------------------------------------------------------------------
(* Bounds of the model.                                                    *)

\* Subscriptions 1..NSub.
NSub == 2

\* The clock runs from 0 to MaxTime.
MaxTime == 1

\* The events from outside that the model counts, over one behaviour: a
\* bounce mail arrives, send_message() lets an exception out, an IMAP
\* command fails, submit() is called directly, a subscriber makes a request
\* between two runs, the process of a scheduler is killed.
MaxEvents == 2

Subs == 1..NSub

\* Two Submissions, so that a queue can hold more than one.
Subms == {1, 2}

Newsletters == {1, 2}

\* The processes that may call submit_queue(), submit() or check_bounces().
Schedulers == {1, 2}

----------------------------------------------------------------------------
(* The state.                                                              *)

VARIABLES
    now,           \* django.utils.timezone.now()
    settings,      \* newsletter_settings: BOUNCE_ACCOUNT
    subscription,  \* the Subscription table (the columns the code changes)
    inst,          \* in-memory Subscription instances held by request handlers
    bounce,        \* the Bounce table, in creation order
    submission,    \* the Submission table
    inbox,         \* the IMAP INBOX: the mails and their \Deleted flag
    archive,       \* the IMAP folder 'INBOX.Past bounces'
    events,        \* how many counted events (see MaxEvents) have happened
    sends,         \* sends[m][s]: message.send() calls for Submission m to s
    sched,         \* per process: the call in progress and its locals
    verp           \* the codec round trip: inputs, encoded and decoded values

vars == <<now, settings, subscription, inst, bounce, submission, inbox, archive,
          events, sends, sched, verp>>

----------------------------------------------------------------------------
(* The rows that exist.  A Subscription's newsletter and e-mail and a      *)
(* Submission's message are set when the row is created and no operation   *)
(* of the model changes them.                                              *)

Letters == <<"u", "U", "v">>

\* Subscription.email.  Subscriptions 1 and 2 hold the same mailbox, written
\* in different case.
SubEmail(s) == <<Letters[((s - 1) % 3) + 1], "@", "h">>

\* Subscription.newsletter
SubNewsletter(s) == subscription[s].newsletter

\* Submission.message (one Message per Submission) and Message.newsletter.
SubmMessage(m) == m

MessageNewsletter(msg) == 1

\* settings.BOUNCE_ACCOUNT['email']
BounceEmail == <<"x", "@", "b">>

----------------------------------------------------------------------------
(* Queries.                                                                *)

\* The elements of a set of numbers in ascending (primary key) order.
RECURSIVE SortedSeq(_)
SortedSeq(S) ==
    IF S = {} THEN <<>>
    ELSE LET x == CHOOSE y \in S : \A z \in S : y <= z
         IN  <<x>> \o SortedSeq(S \ {x})

\* The orders in which a query without ordering may yield the rows S.
Orders(S) ==
    {q \in [1..Cardinality(S) -> S] : \A i, j \in 1..Cardinality(S) : q[i] = q[j] => i = j}

\* An annotation that counts every Bounce of the Subscription, soft ones
\* included.
num_bounces(s) == Cardinality({i \in DOMAIN bounce : bounce[i].subscription = s})

\* The annotation num_hard_bounces of SubscribedQuerySet.subscribed():
\* Sum(Case(When(bounce__hard=True, then=1), default=0)) over the rows of
\* the LEFT JOIN with Bounce (a Subscription without Bounce sums the default).
num_hard_bounces(s) ==
    Cardinality({i \in DOMAIN bounce : bounce[i].subscription = s /\ bounce[i].hard})

\* A filter on the subscribed flag alone.
SubscribedFlagOnly(qs) ==
    {s \in qs : subscription[s].subscribed}

\* A filter that lets a Subscription with hard Bounces through once it has
\* unsubscribed and subscribed again.
SubscribedAnew(qs) ==
    {s \in qs : /\ subscription[s].subscribed
                /\ \/ num_hard_bounces(s) = 0
                   \/ subscription[s].unsubscribe_date # Absent}

\* SubscribedQuerySet.subscribed() on the queryset qs.
subscribed(qs) ==
    {s \in qs : subscription[s].subscribed /\ num_hard_bounces(s) = 0}

\* Newsletter.get_subscriptions()
get_subscriptions(n) ==
    subscribed({s \in Subs : subscription[s].exists /\ SubNewsletter(s) = n})

\* A filter that does not look at the sending flag.
DueIgnoringSending(row, t) ==
    /\ row.prepared
    /\ ~row.sent
    /\ row.publish_date < t

\* The filter of submit_queue() on one row, at time t.
Due(row, t) ==
    /\ row.prepared
    /\ ~row.sent
    /\ ~row.sending
    /\ row.publish_date < t

----------------------------------------------------------------------------
(* Submission objects.                                                     *)

\* The in-memory Submission that a query builds from row m.
Load(m) ==
    [id |-> m,
     prepared |-> submission[m].prepared,
     sent |-> submission[m].sent,
     sending |-> submission[m].sending,
     publish_date |-> submission[m].publish_date,
     message |-> submission[m].message,
     newsletter |-> submission[m].newsletter]

NoObj ==
    [id |-> 0, prepared |-> FALSE, sent |-> FALSE, sending |-> FALSE,
     publish_date |-> 0, message |-> 0, newsletter |-> 0]

\* Submission.save(): the newsletter is set from the message, then every
\* column of the row is written from the object.
SavedObj(o) == [o EXCEPT !.newsletter = MessageNewsletter(o.message)]

\* A save() that writes the newsletter held by the object.
SavedRowsAsAssigned(o) ==
    [submission EXCEPT ![o.id] =
        [prepared |-> o.prepared,
         sent |-> o.sent,
         sending |-> o.sending,
         publish_date |-> o.publish_date,
         message |-> o.message,
         newsletter |-> o.newsletter,
         subscriptions |-> submission[o.id].subscriptions]]

SavedRows(o) ==
    [submission EXCEPT ![o.id] =
        [prepared |-> o.prepared,
         sent |-> o.sent,
         sending |-> o.sending,
         publish_date |-> o.publish_date,
         message |-> o.message,
         newsletter |-> MessageNewsletter(o.message),
         subscriptions |-> submission[o.id].subscriptions]]

\* A guard that lets a publish date equal to the current time through.
PublishDateReached(o, t) == o.publish_date <= t

\* The guard of submit(), line 700.
PublishDatePassed(o, t) == o.publish_date < t

\* Assignments that are left out.
KeepSending(o) == o

KeepUnsent(o) == o

\* Lines 703, 709 and 712: the assignments of submit().
KeepNotSending(o) == o

MarkSending(o) == [o EXCEPT !.sending = TRUE]

MarkSent(o) == [o EXCEPT !.sent = TRUE]

ClearSending(o) == [o EXCEPT !.sending = FALSE]

\* What one send_message() call may do: "ok" (message.send() returned),
\* "SMTPException" (message.send() raised an Exception) or "TemplateError"
\* (rendering or building the message raised, lines 716-747, before the try
\* block).
Outcomes == {"ok", "SMTPException", "TemplateError"}

\* A send_message() without the try block: every exception leaves it.
PropagatesAll(outcome) == outcome # "ok"

\* Whether send_message() lets the exception out: lines 749-764 catch the
\* Exception of message.send() only.
Propagates(outcome) == outcome = "TemplateError"

\* Whether message.send() was called, line 755.
SendCalled(outcome) == outcome \in {"ok", "SMTPException"}

----------------------------------------------------------------------------
(* Processes.                                                              *)

NoMsg == [to |-> Absent, ds |-> Absent]

IdleProc ==
    [pc |-> "idle", entry |-> "none", result |-> "none",
     todo |-> <<>>, obj |-> NoObj, recipients |-> <<>>,
     attempted |-> [s \in Subs |-> 0], failed |-> {}, scanList |-> <<>>,
     \* check_bounces(): the mail last handled and what was recovered from it
     num |-> 0, msgobj |-> NoMsg, addr |-> <<>>, status |-> <<>>,
     \* history of the current submit_queue() run
     t0 |-> 0, rows0 |-> <<>>, bounce0 |-> 0, sends0 |-> <<>>, submitted |-> {}]

\* The outermost call ends with res, "returned" or the exception it raised,
\* and its locals are gone.
Return(l, res) == [IdleProc EXCEPT !.entry = l.entry, !.result = res]

\* Recipients found afresh from the newsletter when submit() is called.
FreshRecipients(m) == get_subscriptions(submission[m].newsletter)

\* Lines 702-706: the recipients of submit(), the Subscriptions attached to
\* the Submission filtered by subscribed().
SendRecipients(m) == subscribed(submission[m].subscriptions)

\* submit() up to the loop, lines 692-707, called on object o with l the
\* caller's locals: the guard, sending=True saved, the recipients fetched.
SubmitBegin(p, o, l) ==
    IF ~PublishDatePassed(o, now)
    THEN /\ sched' = [sched EXCEPT ![p] = Return(l, "AssertionError")]
         /\ UNCHANGED submission
    ELSE /\ submission' = SavedRows(MarkSending(o))
         /\ sched' = [sched EXCEPT ![p] =
                [l EXCEPT !.pc = "sending",
                          !.obj = SavedObj(MarkSending(o)),
                          !.recipients = SortedSeq(SendRecipients(o.id)),
                          !.attempted = [s \in Subs |-> 0],
                          !.failed = {}]]

\* A direct call of submit() on a Submission just loaded.
SubmitCall(p, m) ==
    /\ sched[p].pc = "idle"
    /\ events < MaxEvents
    /\ events' = events + 1
    /\ SubmitBegin(p, Load(m), [IdleProc EXCEPT !.entry = "submit"])
    /\ UNCHANGED <<now, settings, subscription, inst, bounce, inbox, archive,
                   sends, verp>>

\* submit_queue(), lines 768-771: the due Submissions are selected.
SubmitQueue(p) ==
    /\ sched[p].pc = "idle"
    /\ \E order \in Orders({m \in Subms : Due(submission[m], now)}) :
          sched' = [sched EXCEPT ![p] =
              [IdleProc EXCEPT !.pc = "queue", !.entry = "submit_queue",
                               !.todo = [i \in DOMAIN order |-> Load(order[i])],
                               !.t0 = now, !.rows0 = submission,
                               !.bounce0 = Len(bounce), !.sends0 = sends]]
    /\ UNCHANGED <<now, settings, subscription, inst, bounce, submission, inbox,
                   archive, events, sends, verp>>

\* Lines 773-774: submit() on the next selected Submission.
QueueSubmit(p) ==
    /\ sched[p].pc = "queue"
    /\ sched[p].todo # <<>>
    /\ LET o == Head(sched[p].todo)
       IN  SubmitBegin(p, o, [sched[p] EXCEPT !.todo = Tail(@),
                                              !.submitted = @ \cup {o.id}])
    /\ UNCHANGED <<now, settings, subscription, inst, bounce, inbox, archive,
                   events, sends, verp>>

\* One turn of the loop of submit(), line 708: send_message(subscription).
\* An exception that send_message() lets out ends the loop; the finally
\* block saves sending=False and the exception leaves the outermost call.
SendMessage(p, outcome) ==
    /\ sched[p].pc = "sending"
    /\ sched[p].recipients # <<>>
    /\ LET s == Head(sched[p].recipients)
           o == sched[p].obj
       IN  IF Propagates(outcome)
           THEN /\ events < MaxEvents
                /\ events' = events + 1
                /\ submission' = SavedRows(ClearSending(o))
                /\ sched' = [sched EXCEPT ![p] = Return(@, outcome)]
                /\ UNCHANGED sends
           ELSE /\ sends' = [sends EXCEPT ![o.id][s] =
                                IF SendCalled(outcome) THEN @ + 1 ELSE @]
                /\ sched' = [sched EXCEPT ![p].recipients = Tail(@),
                                          ![p].attempted[s] =
                                              IF SendCalled(outcome) THEN @ + 1 ELSE @,
                                          ![p].failed =
                                              IF outcome = "ok" THEN @ ELSE @ \cup {s}]
                /\ UNCHANGED <<submission, events>>
    /\ UNCHANGED <<now, settings, subscription, inst, bounce, inbox, archive,
                   verp>>

\* The loop is over: sent=True (line 709), then the finally block.
SubmitFinish(p) ==
    /\ sched[p].pc = "sending"
    /\ sched[p].recipients = <<>>
    /\ submission' = SavedRows(ClearSending(MarkSent(sched[p].obj)))
    /\ sched' = [sched EXCEPT ![p] =
            IF @.entry = "submit_queue"
            THEN [@ EXCEPT !.pc = "queue", !.obj = NoObj]
            ELSE Return(@, "returned")]
    /\ UNCHANGED <<now, settings, subscription, inst, bounce, inbox, archive,
                   events, sends, verp>>

\* The process of p is killed inside the try block of submit(), lines
\* 706-709: no finally block runs, nothing is saved, its locals are gone.
Crash(p) ==
    /\ sched[p].pc = "sending"
    /\ events < MaxEvents
    /\ events' = events + 1
    /\ sched' = [sched EXCEPT ![p] = Return(@, "killed")]
    /\ UNCHANGED <<now, settings, subscription, inst, bounce, submission, inbox,
                   archive, sends, verp>>

----------------------------------------------------------------------------
(* check_bounces().                                                        *)

\* A lookup that compares the e-mail exactly.
ExactSubscriptions(addr) ==
    {s \in Subs : subscription[s].exists /\ SubEmail(s) = addr}

\* Lines 77-78: the Subscriptions whose e-mail is addr, whatever the case.
MatchingSubscriptions(addr) ==
    {s \in Subs : subscription[s].exists /\ IExact(SubEmail(s), addr)}

\* Lines 79-83: the Bounce created for subscr.
NewBounce(subscr, status, content) ==
    [subscription |-> subscr, hard |-> IsHard(status),
     status_code |-> status, content |-> content]

\* Lines 77-83: one Bounce per matching Subscription.
NewBounces(addr, status, content) ==
    LET subscrs == SortedSeq(MatchingSubscriptions(addr))
    IN  [i \in DOMAIN subscrs |-> NewBounce(subscrs[i], status, content)]

\* Line 74.
Unrecovered(ex) == ex.addr = <<>> \/ ex.status = <<>>

\* What the IMAP server may answer while one mail is handled: every command
\* succeeds ("ok"), fetch, copy or store raises IMAP4.error, or copy is
\* refused with a NO response.
ImapOutcomes == {"ok", "fetch_error", "copy_error", "copy_no", "store_error"}

\* Lines 28-43, with l the caller's locals: nothing without BOUNCE_ACCOUNT;
\* else the session is opened and the INBOX listed; an IMAP4.error is
\* logged and check_bounces() returns.
CheckBouncesBegin(p, l, fails) ==
    IF settings.BOUNCE_ACCOUNT = Absent
    THEN /\ ~fails
         /\ sched' = [sched EXCEPT ![p] = Return(l, "returned")]
         /\ UNCHANGED events
    ELSE IF fails
    THEN /\ events < MaxEvents
         /\ events' = events + 1
         /\ sched' = [sched EXCEPT ![p] = Return(l, "returned")]
    ELSE /\ sched' = [sched EXCEPT ![p] =
                [l EXCEPT !.pc = "scan", !.scanList = [i \in 1..Len(inbox) |-> i]]]
         /\ UNCHANGED events

\* A direct call of check_bounces().
CheckBouncesCall(p, fails) ==
    /\ sched[p].pc = "idle"
    /\ CheckBouncesBegin(p, [IdleProc EXCEPT !.entry = "check_bounces"], fails)
    /\ UNCHANGED <<now, settings, subscription, inst, bounce, submission, inbox,
                   archive, sends, verp>>

\* Line 776: submit_queue() has submitted every selected Submission.
QueueCheckBounces(p, fails) ==
    /\ sched[p].pc = "queue"
    /\ sched[p].todo = <<>>
    /\ CheckBouncesBegin(p, sched[p], fails)
    /\ UNCHANGED <<now, settings, subscription, inst, bounce, submission, inbox,
                   archive, sends, verp>>

\* Lines 45-87 for the next listed mail.
ScanMessage(p, outcome) ==
    /\ sched[p].pc = "scan"
    /\ sched[p].scanList # <<>>
    /\ outcome # "ok" => events < MaxEvents
    /\ events' = IF outcome = "ok" THEN events ELSE events + 1
    /\ LET num == Head(sched[p].scanList)
           msgobj == inbox[num].msg
           ex == IF msgobj.to = Absent THEN [addr |-> <<>>, status |-> <<>>]
                 ELSE Extract(msgobj)
           l == [sched[p] EXCEPT !.num = num, !.msgobj = msgobj,
                                 !.addr = ex.addr, !.status = ex.status]
           goOn == [sched EXCEPT ![p] = [l EXCEPT !.scanList = Tail(@)]]
           abort == [sched EXCEPT ![p] = Return(l, "returned")]
       IN  IF outcome = "fetch_error"
           THEN /\ sched' = [sched EXCEPT ![p] = Return(@, "returned")]
                /\ UNCHANGED <<bounce, inbox, archive>>
           ELSE IF msgobj.to = Absent
           THEN \* verp_re.match(None) raises TypeError, which nothing catches
                /\ outcome = "ok"
                /\ sched' = [sched EXCEPT ![p] = Return(l, "TypeError")]
                /\ UNCHANGED <<bounce, inbox, archive>>
           ELSE IF Unrecovered(ex)
           THEN /\ outcome = "ok"
                /\ sched' = goOn
                /\ UNCHANGED <<bounce, inbox, archive>>
           ELSE /\ bounce' = bounce \o NewBounces(ex.addr, ex.status, msgobj)
                /\ archive' = IF outcome \in {"ok", "store_error"}
                              THEN Append(archive, msgobj) ELSE archive
                /\ inbox' = IF outcome = "ok"
                            THEN [inbox EXCEPT ![num].deleted = TRUE] ELSE inbox
                /\ sched' = IF outcome \in {"ok", "copy_no"} THEN goOn ELSE abort
    /\ UNCHANGED <<now, settings, subscription, inst, submission, sends, verp>>

\* Flagged mails are removed by expunge.
Expunged(box) == SelectSeq(box, LAMBDA e : ~e.deleted)

\* Lines 88-90: expunge, close, logout; an IMAP4.error of expunge is logged.
ScanEnd(p, fails) ==
    /\ sched[p].pc = "scan"
    /\ sched[p].scanList = <<>>
    /\ fails => events < MaxEvents
    /\ events' = IF fails THEN events + 1 ELSE events
    /\ inbox' = IF fails THEN inbox ELSE Expunged(inbox)
    /\ sched' = [sched EXCEPT ![p] = Return(@, "returned")]
    /\ UNCHANGED <<now, settings, subscription, inst, bounce, submission, archive,
                   sends, verp>>

----------------------------------------------------------------------------
(* Subscription: update() and save().                                      *)

\* Request handlers hold in-memory Subscription instances 1..NInst.
NInst == 2

Insts == 1..NInst

\* The Subscriptions that requests are made on.
Requested == {1}

Actions == {"subscribe", "update", "unsubscribe"}

NoInst ==
    [sub |-> 0, pk |-> FALSE, newsletter |-> 0, user |-> FALSE, email_field |-> FALSE,
     subscribed |-> FALSE, unsubscribed |-> FALSE,
     subscribe_date |-> Absent, unsubscribe_date |-> Absent,
     \* on the instance of the most recent call: the update() or save()
     \* called on it, when, and the exception it raised
     last |-> "none", at |-> 0, raised |-> "none"]

\* A row that was never saved, and the field defaults of a new instance
\* (lines 329-342).
NoRow ==
    [exists |-> FALSE, newsletter |-> 0, user |-> FALSE, email_field |-> FALSE,
     subscribed |-> FALSE, unsubscribed |-> FALSE,
     subscribe_date |-> Absent, unsubscribe_date |-> Absent]

\* The instance that Subscription.objects.get() builds from row s.
GetObj(s) ==
    [sub |-> s, pk |-> TRUE,
     newsletter |-> subscription[s].newsletter,
     user |-> subscription[s].user,
     email_field |-> subscription[s].email_field,
     subscribed |-> subscription[s].subscribed,
     unsubscribed |-> subscription[s].unsubscribed,
     subscribe_date |-> subscription[s].subscribe_date,
     unsubscribe_date |-> subscription[s].unsubscribe_date,
     last |-> "none", at |-> 0, raised |-> "none"]

\* Lines 222-225: the flag that update(action) sets.
UpdateFlags(o, action) ==
    IF action = "subscribe" \/ action = "update"
    THEN [o EXCEPT !.subscribed = TRUE]
    ELSE [o EXCEPT !.unsubscribed = TRUE]

\* A _subscribe() that leaves the unsubscribed flag as it is.
SubscribeKeepingUnsubscribed(o, t) ==
    [o EXCEPT !.subscribe_date = Some(t), !.subscribed = TRUE]

\* A _subscribe() that forgets when the Subscription was unsubscribed.
SubscribeForgetting(o, t) ==
    [o EXCEPT !.subscribe_date = Some(t), !.subscribed = TRUE, !.unsubscribed = FALSE,
              !.unsubscribe_date = Absent]

\* Subscription._subscribe(), lines 246-248.
Subscribe(o, t) ==
    [o EXCEPT !.subscribe_date = Some(t), !.subscribed = TRUE, !.unsubscribed = FALSE]

\* An _unsubscribe() that leaves the subscribed flag as it is.
UnsubscribeKeepingSubscribed(o, t) ==
    [o EXCEPT !.unsubscribed = TRUE, !.unsubscribe_date = Some(t)]

\* Subscription._unsubscribe(), lines 257-259.
Unsubscribe(o, t) ==
    [o EXCEPT !.subscribed = FALSE, !.unsubscribed = TRUE, !.unsubscribe_date = Some(t)]

\* A condition that subscribes whenever the object is subscribed.
MustSubscribeAlways(o, old) == o.subscribed

\* Lines 292-293 and 302-303: the object against the persisted flags.
MustSubscribe(o, old) ==
    \/ o.subscribed /\ ~old.subscribed
    \/ old.unsubscribed /\ ~o.unsubscribed

MustUnsubscribe(o, old) ==
    \/ o.unsubscribed /\ ~old.unsubscribed
    \/ old.subscribed /\ ~o.subscribed

\* Subscription.save(), lines 283-312: the state maintenance before the
\* row is written.
Maintained(o, t) ==
    IF o.pk
    THEN LET old == subscription[o.sub]
         IN  IF MustSubscribe(o, old) THEN Subscribe(o, t)
             ELSE IF MustUnsubscribe(o, old) THEN Unsubscribe(o, t)
             ELSE o
    ELSE IF o.subscribed THEN Subscribe(o, t)
    ELSE IF o.unsubscribed THEN Unsubscribe(o, t)
    ELSE o

\* Line 314: every column is written from the object.
RowOf(o) ==
    [exists |-> TRUE, newsletter |-> o.newsletter,
     user |-> o.user, email_field |-> o.email_field,
     subscribed |-> o.subscribed, unsubscribed |-> o.unsubscribed,
     subscribe_date |-> o.subscribe_date, unsubscribe_date |-> o.unsubscribe_date]

\* A validation reduced to the first assert.
SomeIdentity(o) == o.user \/ o.email_field

\* Lines 269-274: the two asserts of save(). user and email_field tell
\* whether the field holds a value that is true in Python.
ValidIdentity(o) ==
    /\ o.user \/ o.email_field
    /\ (o.user /\ ~o.email_field) \/ (o.email_field /\ ~o.user)

\* The instances with the record of the most recent call taken off.
Earlier(insts) ==
    [j \in DOMAIN insts |->
        [insts[j] EXCEPT !.last = "none", !.at = 0, !.raised = "none"]]

\* Subscription.save(), lines 261-314, on the object o held as instance i,
\* called by label: a failed assert raises AssertionError before the row is
\* read or written.
SaveInstance(i, o, label) ==
    IF ~ValidIdentity(o)
    THEN /\ subscription' = subscription
         /\ inst' = [Earlier(inst) EXCEPT
                        ![i] = [o EXCEPT !.last = label, !.at = now,
                                         !.raised = "AssertionError"]]
    ELSE LET saved == Maintained(o, now)
         IN  /\ subscription' = [subscription EXCEPT ![o.sub] = RowOf(saved)]
             /\ inst' = [Earlier(inst) EXCEPT
                            ![i] = [saved EXCEPT !.pk = TRUE, !.last = label,
                                                 !.at = now, !.raised = "none"]]

\* A handler loads the Subscription s.
Get(i, s) ==
    /\ subscription[s].exists
    /\ inst' = [inst EXCEPT ![i] = GetObj(s)]
    /\ UNCHANGED <<now, settings, subscription, bounce, submission, inbox, archive,
                   events, sends, sched, verp>>

\* A handler builds the Subscription s, which has no row yet.
New(i, s) ==
    /\ ~subscription[s].exists
    /\ \A j \in Insts : inst[j].sub # s
    /\ inst' = [inst EXCEPT ![i] = [NoInst EXCEPT !.sub = s, !.newsletter = 1,
                                                    !.email_field = TRUE]]
    /\ UNCHANGED <<now, settings, subscription, bounce, submission, inbox, archive,
                   events, sends, sched, verp>>

\* Subscription.update(action), lines 212-237, save() included.
Update(i, action) ==
    /\ inst[i].sub # 0
    /\ SaveInstance(i, UpdateFlags(inst[i], action), action)
    /\ UNCHANGED <<now, settings, bounce, submission, inbox, archive,
                   events, sends, sched, verp>>

\* A caller assigns the identity fields of an instance: a linked account
\* (user), a standalone e-mail (email_field), both or none.
SetIdentity(i, user, email_field) ==
    /\ inst[i].sub # 0
    /\ inst' = [inst EXCEPT ![i].user = user, ![i].email_field = email_field]
    /\ UNCHANGED <<now, settings, subscription, bounce, submission, inbox, archive,
                   events, sends, sched, verp>>

\* A caller saves an instance as it is.
Save(i) ==
    /\ inst[i].sub # 0
    /\ SaveInstance(i, inst[i], "save")
    /\ UNCHANGED <<now, settings, bounce, submission, inbox, archive,
                   events, sends, sched, verp>>

\* How a save is recorded that follows the assignment of both flags.
SaveLabel(sflag, uflag) ==
    IF sflag /\ uflag THEN "save(both)"
    ELSE IF sflag THEN "save(subscribed)"
    ELSE IF uflag THEN "save(unsubscribed)"
    ELSE "save(neither)"

\* A caller assigns both flags of an instance and saves it.
AssignAndSave(i, sflag, uflag) ==
    /\ inst[i].sub # 0
    /\ SaveInstance(i, [inst[i] EXCEPT !.subscribed = sflag,
                                       !.unsubscribed = uflag],
                    SaveLabel(sflag, uflag))
    /\ UNCHANGED <<now, settings, bounce, submission, inbox, archive,
                   events, sends, sched, verp>>

----------------------------------------------------------------------------
(* The environment.                                                        *)

\* No call is in progress.
Quiet == \A p \in Schedulers : sched[p].pc = "idle"

\* Time passes, between two calls.
Tick ==
    /\ Quiet
    /\ now < MaxTime
    /\ now' = now + 1
    /\ UNCHANGED <<settings, subscription, inst, bounce, submission, inbox, archive,
                   events, sends, sched, verp>>

\* Submission.bounce_address, lines 686-690.
bounce_address ==
    IF settings.BOUNCE_ACCOUNT # Absent THEN Some(settings.BOUNCE_ACCOUNT[1].email)
    ELSE Absent

STATUS_511 == <<"5", ".", "1", ".", "1">>

STATUS_422 == <<"4", ".", "2", ".", "2">>

STATUS_200 == <<"2", ".", "0", ".", "0">>

\* The delivery-status notifications that a mail sent to s may come back as:
\* addressed to the VERP return path that send_message() gave the mail.
BounceMails(s) ==
    {[to |-> as_verp(bounce_address, SubEmail(s)),
      ds |-> Some(<<[orig |-> Absent, final |-> Some(RFC822 \o SubEmail(s)),
                     status |-> Some(st)]>>)] : st \in {STATUS_511, MAILBOX_FULL}}

\* A mail sent to s bounces: the notification arrives in the INBOX, between
\* two calls.
BounceArrives(s, msg) ==
    /\ Quiet
    /\ events < MaxEvents
    /\ bounce_address # Absent
    /\ \E m \in Subms : sends[m][s] > 0
    /\ msg \in BounceMails(s)
    /\ inbox' = Append(inbox, [msg |-> msg, deleted |-> FALSE])
    /\ events' = events + 1
    /\ UNCHANGED <<now, settings, subscription, inst, bounce, submission, archive,
                   sends, sched, verp>>

\* A Submission id that from_message() has not created yet.
NoSubmission ==
    [prepared |-> FALSE, sent |-> FALSE, sending |-> FALSE, publish_date |-> 0,
     message |-> 0, newsletter |-> 0, subscriptions |-> {}]

\* Submission.from_message(message), lines 778-786, which creates Submission
\* m: the field defaults (publish_date=now), message and newsletter, save(),
\* then the recipients are set to the newsletter's get_subscriptions().
FromMessage(m) ==
    /\ Quiet
    /\ submission[m] = NoSubmission
    /\ LET message == SubmMessage(m)
           o == [NoObj EXCEPT !.id = m, !.publish_date = now, !.message = message,
                              !.newsletter = MessageNewsletter(message)]
       IN  submission' = [SavedRows(o) EXCEPT
                             ![m].subscriptions =
                                 get_subscriptions(MessageNewsletter(message))]
    /\ UNCHANGED <<now, settings, subscription, inst, bounce, inbox, archive,
                   events, sends, sched, verp>>

\* A caller loads Submission m, marks it prepared, leaves newsletter n in
\* the object and saves it.
Prepare(m, n) ==
    /\ Quiet
    /\ submission[m] # NoSubmission
    /\ ~submission[m].prepared
    /\ submission' = SavedRows([Load(m) EXCEPT !.prepared = TRUE, !.newsletter = n])
    /\ UNCHANGED <<now, settings, subscription, inst, bounce, inbox, archive,
                   events, sends, sched, verp>>

\* A subscriber's request between two runs: the Subscription is loaded,
\* update(action) is called on it and the handler returns (the rows have a
\* valid identity, so save() writes).
Request(s, action) ==
    /\ Quiet
    /\ events < MaxEvents
    /\ events' = events + 1
    /\ subscription[s].exists
    /\ ValidIdentity(GetObj(s))
    /\ subscription' = [subscription EXCEPT
            ![s] = RowOf(Maintained(UpdateFlags(GetObj(s), action), now))]
    /\ UNCHANGED <<now, settings, inst, bounce, submission, inbox, archive,
                   sends, sched, verp>>

\* A request made on a Subscription that has a hard Bounce: the
\* Subscription is loaded, update(action) is called on it and the handler
\* returns.
RequestAfterBounce(s, action) ==
    /\ Quiet
    /\ subscription[s].exists
    /\ num_hard_bounces(s) > 0
    /\ ValidIdentity(GetObj(s))
    /\ subscription' = [subscription EXCEPT
            ![s] = RowOf(Maintained(UpdateFlags(GetObj(s), action), now))]
    /\ UNCHANGED <<now, settings, inst, bounce, submission, inbox, archive,
                   events, sends, sched, verp>>

----------------------------------------------------------------------------
(* The VERP round trip: send_message() encodes, check_bounces() decodes.   *)

\* The longest word of an address part.
MaxWord == 2

\* The words of 1..MaxWord characters over an alphabet.
Words(alphabet) == UNION {[1..n -> alphabet] : n \in 1..MaxWord}

NoVerp ==
    [pc |-> "none", a |-> <<>>, b |-> <<>>, u |-> <<>>, h |-> <<>>,
     encoded |-> Absent, decoded |-> Absent]

\* Line 735: from_email=as_verp(self.bounce_address, subscription.email).
VerpEncode ==
    /\ verp.pc = "start"
    /\ verp' = [verp EXCEPT !.pc = "encoded",
                            !.encoded = as_verp(Some(verp.a \o <<"@">> \o verp.b),
                                                verp.u \o <<"@">> \o verp.h)]
    /\ UNCHANGED <<now, settings, subscription, inst, bounce, submission, inbox,
                   archive, events, sends, sched>>

\* Lines 54-57 on the encoded address.
VerpDecode ==
    /\ verp.pc = "encoded"
    /\ verp' = [verp EXCEPT !.pc = "decoded",
                            !.decoded = verp_re_match(verp.encoded[1])]
    /\ UNCHANGED <<now, settings, subscription, inst, bounce, submission, inbox,
                   archive, events, sends, sched>>

----------------------------------------------------------------------------
(* Specifications.                                                         *)

WithBounceAccount == [BOUNCE_ACCOUNT |-> Some([email |-> BounceEmail])]

WithoutBounceAccount == [BOUNCE_ACCOUNT |-> Absent]

SubscribedRow ==
    [exists |-> TRUE, newsletter |-> 1, user |-> FALSE, email_field |-> TRUE,
     subscribed |-> TRUE, unsubscribed |-> FALSE,
     subscribe_date |-> Some(0), unsubscribe_date |-> Absent]

UnsubscribedRow ==
    [exists |-> TRUE, newsletter |-> 1, user |-> FALSE, email_field |-> TRUE,
     subscribed |-> FALSE, unsubscribed |-> TRUE,
     subscribe_date |-> Some(0), unsubscribe_date |-> Some(0)]

NeverSubscribedRow ==
    [NoRow EXCEPT !.exists = TRUE, !.newsletter = 1, !.email_field = TRUE]

\* A Submission as from_message() and the admin leave it (not sent, not
\* sending, prepared or not), or as a process killed inside submit() left it
\* (sending); its recipients are the Subscriptions of its newsletter.
SubmissionRows(m) ==
    {r \in {[prepared |-> prep, sent |-> FALSE, sending |-> sending, publish_date |-> d,
             message |-> SubmMessage(m),
             newsletter |-> MessageNewsletter(SubmMessage(m)),
             subscriptions |-> {s \in Subs :
                                  SubNewsletter(s) = MessageNewsletter(SubmMessage(m))}]
               : prep \in BOOLEAN, sending \in BOOLEAN, d \in {0, MaxTime}} :
        r.sending => (r.prepared /\ r.publish_date = 0)}

InitQuiet ==
    /\ now = 0
    /\ inst = [i \in Insts |-> NoInst]
    /\ bounce = <<>>
    /\ archive = <<>>
    /\ events = 0
    /\ sends = [m \in Subms |-> [s \in Subs |-> 0]]
    /\ sched = [p \in Schedulers |-> IdleProc]

\* The submission engine with one scheduler.
Init ==
    /\ InitQuiet
    /\ settings \in {WithBounceAccount, WithoutBounceAccount}
    /\ subscription \in [Subs -> {SubscribedRow, UnsubscribedRow}]
    /\ submission \in {f \in [Subms -> UNION {SubmissionRows(m) : m \in Subms}] :
                          \A m \in Subms : f[m] \in SubmissionRows(m)}
    /\ inbox = <<>>
    /\ verp = NoVerp

Next ==
    \/ SubmitQueue(1)
    \/ \E m \in Subms : SubmitCall(1, m)
    \/ QueueSubmit(1)
    \/ \E outcome \in Outcomes : SendMessage(1, outcome)
    \/ SubmitFinish(1)
    \/ \E fails \in BOOLEAN : QueueCheckBounces(1, fails)
    \/ \E outcome \in ImapOutcomes : ScanMessage(1, outcome)
    \/ \E fails \in BOOLEAN : ScanEnd(1, fails)
    \/ \E s \in Subs : \E msg \in BounceMails(s) : BounceArrives(s, msg)
    \/ Tick

Spec == Init /\ [][Next]_vars

\* A sequence of submit_queue() runs of one scheduler, with Submissions
\* created and prepared, subscriber requests and bounce mails between the
\* runs.  Subscription 1 is subscribed or unsubscribed, the others are
\* subscribed.  Submission 1 exists, with the recipients selected for it:
\* all Subscriptions or none; Submission 2 is created by from_message().
InitRuns ==
    /\ InitQuiet
    /\ settings = WithBounceAccount
    /\ \E row \in {SubscribedRow, UnsubscribedRow} :
          subscription = [s \in Subs |-> IF s = 1 THEN row ELSE SubscribedRow]
    /\ \E selected \in {{}, Subs} :
          submission = [m \in Subms |->
              IF m = 1
              THEN [prepared |-> TRUE, sent |-> FALSE, sending |-> FALSE,
                    publish_date |-> 0, message |-> SubmMessage(1),
                    newsletter |-> MessageNewsletter(SubmMessage(1)),
                    subscriptions |-> selected]
              ELSE NoSubmission]
    /\ inbox = <<>>
    /\ verp = NoVerp

NextRuns ==
    \/ SubmitQueue(1)
    \/ QueueSubmit(1)
    \/ \E outcome \in Outcomes : SendMessage(1, outcome)
    \/ SubmitFinish(1)
    \/ \E fails \in BOOLEAN : QueueCheckBounces(1, fails)
    \/ \E outcome \in ImapOutcomes : ScanMessage(1, outcome)
    \/ \E fails \in BOOLEAN : ScanEnd(1, fails)
    \/ \E s \in Subs : \E msg \in BounceMails(s) : BounceArrives(s, msg)
    \/ \E m \in Subms : FromMessage(m)
    \/ \E m \in Subms, n \in Newsletters : Prepare(m, n)
    \/ \E s \in Subs, action \in Actions : Request(s, action)
    \/ Tick

SpecRuns == InitRuns /\ [][NextRuns]_vars

\* Two schedulers call submit_queue() at any time, their steps interleaved.
\* No bounce account is configured and send_message() lets no exception
\* out, so that a Submission sent twice is the work of the interleaving
\* alone.  Every Submission is prepared and not in progress.
InitRace ==
    /\ InitQuiet
    /\ settings = WithoutBounceAccount
    /\ subscription = [s \in Subs |-> SubscribedRow]
    /\ submission \in {f \in [Subms -> UNION {SubmissionRows(m) : m \in Subms}] :
                          \A m \in Subms : /\ f[m] \in SubmissionRows(m)
                                           /\ f[m].prepared
                                           /\ ~f[m].sending}
    /\ inbox = <<>>
    /\ verp = NoVerp

NextRace ==
    \/ \E p \in Schedulers : SubmitQueue(p)
    \/ \E p \in Schedulers : QueueSubmit(p)
    \/ \E p \in Schedulers : \E outcome \in {"ok", "SMTPException"} :
          SendMessage(p, outcome)
    \/ \E p \in Schedulers : SubmitFinish(p)
    \/ \E p \in Schedulers : QueueCheckBounces(p, FALSE)
    \/ Tick

SpecRace == InitRace /\ [][NextRace]_vars

\* The submit_queue() runs of one scheduler whose process may be killed
\* while it is in the loop of submit().
NextCrash ==
    \/ SubmitQueue(1)
    \/ QueueSubmit(1)
    \/ \E outcome \in Outcomes : SendMessage(1, outcome)
    \/ SubmitFinish(1)
    \/ QueueCheckBounces(1, FALSE)
    \/ Crash(1)
    \/ Tick

SpecCrash == InitRace /\ [][NextCrash]_vars

\* The submit_queue() runs of one scheduler, with bounce mails arriving and
\* with any number of requests made on a Subscription once it has a hard
\* Bounce; the mail server and the IMAP server work.
NextSuppress ==
    \/ SubmitQueue(1)
    \/ QueueSubmit(1)
    \/ SendMessage(1, "ok")
    \/ SubmitFinish(1)
    \/ QueueCheckBounces(1, FALSE)
    \/ ScanMessage(1, "ok")
    \/ ScanEnd(1, FALSE)
    \/ \E s \in Subs : \E msg \in BounceMails(s) : BounceArrives(s, msg)
    \/ \E m \in Subms : FromMessage(m)
    \/ \E m \in Subms, n \in Newsletters : Prepare(m, n)
    \/ \E s \in Requested, action \in Actions : RequestAfterBounce(s, action)
    \/ Tick

SpecSuppress == InitRuns /\ [][NextSuppress]_vars

\* Subscription requests.
InitSub ==
    /\ InitQuiet
    /\ settings = WithoutBounceAccount
    /\ subscription \in [Subs -> {NoRow, NeverSubscribedRow}]
    /\ \A s \in Subs \ Requested : subscription[s] = NoRow
    /\ submission = [m \in Subms |-> CHOOSE r \in SubmissionRows(m) :
                                        ~r.prepared /\ ~r.sending /\ r.publish_date = 0]
    /\ inbox = <<>>
    /\ verp = NoVerp

NextSub ==
    \/ \E i \in Insts, s \in Requested : Get(i, s)
    \/ \E i \in Insts, s \in Requested : New(i, s)
    \/ \E i \in Insts, action \in Actions : Update(i, action)
    \/ Tick

SpecSub == InitSub /\ [][NextSub]_vars

\* The instances whose fields their holder assigns.
Editors == {1}

\* An instance whose flags are assigned in any combination before save(),
\* next to the requests made through update() on every instance.
NextFlags ==
    \/ \E i \in Insts, s \in Requested : Get(i, s)
    \/ \E i \in Insts, s \in Requested : New(i, s)
    \/ \E i \in Editors, sflag \in BOOLEAN, uflag \in BOOLEAN :
          AssignAndSave(i, sflag, uflag)
    \/ \E i \in Insts, action \in Actions : Update(i, action)
    \/ Tick

SpecFlags == InitSub /\ [][NextFlags]_vars

\* Instances whose identity fields were assigned, saved directly or through
\* update().
NextSave ==
    \/ \E i \in Editors, s \in Requested : Get(i, s)
    \/ \E i \in Editors, s \in Requested : New(i, s)
    \/ \E i \in Editors, user \in BOOLEAN, email_field \in BOOLEAN :
          SetIdentity(i, user, email_field)
    \/ \E i \in Editors : Save(i)
    \/ \E i \in Editors, action \in Actions : Update(i, action)
    \/ Tick

SpecSave == InitSub /\ [][NextSave]_vars

\* The codec on every pair of addresses.
InitVerp ==
    /\ InitQuiet
    /\ settings = WithBounceAccount
    /\ subscription = [s \in Subs |-> SubscribedRow]
    /\ submission = [m \in Subms |-> CHOOSE r \in SubmissionRows(m) :
                                        ~r.prepared /\ ~r.sending /\ r.publish_date = 0]
    /\ inbox = <<>>
    /\ verp \in {[NoVerp EXCEPT !.pc = "start", !.a = a, !.b = b, !.u = u, !.h = h] :
                    a \in Words({"x", "+", "="}), b \in Words({"b"}),
                    u \in Words({"u", "."}), h \in Words({"h"})}

NextVerp == VerpEncode \/ VerpDecode

SpecVerp == InitVerp /\ [][NextVerp]_vars

\* The mailbox scan on every mail of a pool.
ToPool ==
    {Absent,
     Some(BounceEmail),
     as_verp(Some(BounceEmail), <<"u", "@", "h">>),
     Some(<<"x", "+", "=", "h", "@", "b">>),
     Some(<<"x", "+", "u", "=", "h", "@">>)}

OriginalRecipientPool == {Absent, Some(RFC822 \o <<"U", "@", "h">>), Some(<<" ">>)}

FinalRecipientPool == {Absent, Some(RFC822 \o <<" ", "u", "@", "h">>)}

StatusPool ==
    {Absent, Some(STATUS_511), Some(MAILBOX_FULL), Some(STATUS_422), Some(STATUS_200)}

BlockPool ==
    {[orig |-> o, final |-> f, status |-> st] :
        o \in OriginalRecipientPool, f \in FinalRecipientPool, st \in StatusPool}

\* The blocks that leave the address or the status to a later block.
OpenBlockPool ==
    {b \in BlockPool : b.status = Absent \/ (b.orig = Absent /\ b.final = Absent)}

MailPool ==
    {[to |-> to, ds |-> ds] :
        to \in ToPool,
        ds \in {Absent} \cup {Some(<<b>>) : b \in BlockPool}
                        \cup {Some(<<b1, b2>>) : b1 \in OpenBlockPool, b2 \in BlockPool}}

\* A plain hard bounce of a mail sent to u@h.
PlainBounce == CHOOSE msg \in BounceMails(1) : msg.ds[1][1].status = Some(STATUS_511)

\* Subscriptions 1 and 2, which hold the same mailbox, are Subscriptions to
\* different newsletters.
InitScan ==
    /\ InitQuiet
    /\ settings = WithBounceAccount
    /\ subscription = [s \in Subs |->
                          [SubscribedRow EXCEPT !.newsletter = IF s = 2 THEN 2 ELSE 1]]
    /\ submission = [m \in Subms |-> CHOOSE r \in SubmissionRows(m) :
                                        ~r.prepared /\ ~r.sending /\ r.publish_date = 0]
    /\ \E msg \in MailPool :
          \/ inbox = <<[msg |-> msg, deleted |-> FALSE]>>
          \/ inbox = <<[msg |-> msg, deleted |-> FALSE],
                       [msg |-> PlainBounce, deleted |-> FALSE]>>
    /\ verp = NoVerp

NextScan ==
    \/ \E fails \in BOOLEAN : CheckBouncesCall(1, fails)
    \/ \E outcome \in ImapOutcomes : ScanMessage(1, outcome)
    \/ \E fails \in BOOLEAN : ScanEnd(1, fails)

SpecScan == InitScan /\ [][NextScan]_vars

----------------------------------------------------------------------------
(* Properties of the submission engine (specification Spec).               *)

\* The step in which the submit() call of scheduler 1 ends: the loop is
\* left, by its end or by an exception.
SubmitEnds == sched[1].pc = "sending" /\ sched'[1].pc # "sending"

\* The submit() call that ends went through its whole loop.
LoopCompleted == sched[1].recipients = <<>>

\* The Subscriptions of Submission row that the suppression rule lets
\* through, given the Bounce rows 1..n: subscribed, and without hard Bounce.
EligibleFor(row, n) ==
    {s \in row.subscriptions :
        /\ subscription[s].subscribed
        /\ \A i \in 1..n : bounce[i].subscription = s => ~bounce[i].hard}

\* The rows that the selection rule of the queue names, among rows at time t.
DueAt(rows, t) ==
    {m \in Subms : /\ rows[m].prepared
                   /\ ~rows[m].sent
                   /\ ~rows[m].sending
                   /\ rows[m].publish_date < t}

\* C1, as the specification states it: when a submit() call ends, normally
\* or by an exception, sending=false is persisted, and sent=true is persisted
\* if and only if the loop over the recipients ran to completion.
C1_AsStated ==
    [][SubmitEnds =>
          LET m == sched[1].obj.id
          IN  /\ ~submission'[m].sending
              /\ submission'[m].sent <=> LoopCompleted]_vars

\* C1, amended: when a submit() call ends, normally or by an exception,
\* sending=false is persisted; sent=true is persisted when the loop ran to
\* completion; when the loop was left by an exception the persisted sent flag
\* is the one the Submission had before the call.
C1_SubmitEndState ==
    [][SubmitEnds =>
          LET m == sched[1].obj.id
          IN  /\ ~submission'[m].sending
              /\ LoopCompleted => submission'[m].sent
              /\ ~LoopCompleted => submission'[m].sent = submission[m].sent]_vars

\* A submit() call was left by an exception after a first recipient was
\* served: the Submission is persisted neither sending nor sent.
C1_Witness ==
    /\ sched[1].result = "TemplateError"
    /\ \E m \in Subms : /\ sends[m][1] > 0
                        /\ ~submission[m].sent
                        /\ ~submission[m].sending

\* C2: an exception of the mail transport for one recipient does not leave
\* submit(); the call that reaches the end of its loop has called
\* message.send() exactly once for every eligible Subscription, the failed
\* ones included, and for no other, and persists sent=true and sending=false.
C2_RecipientIsolation ==
    [][SubmitEnds =>
          LET m == sched[1].obj.id
          IN  /\ sched'[1].result # "SMTPException"
              /\ LoopCompleted =>
                    /\ \A s \in Subs :
                          sched[1].attempted[s] =
                              IF s \in EligibleFor(submission[m], Len(bounce))
                              THEN 1 ELSE 0
                    /\ sched[1].failed \subseteq EligibleFor(submission[m], Len(bounce))
                    /\ submission'[m].sent
                    /\ ~submission'[m].sending]_vars

\* The transport failed for Subscription 1, Subscription 2 was served after
\* it and the loop is at its end.
C2_Witness ==
    /\ sched[1].pc = "sending"
    /\ sched[1].recipients = <<>>
    /\ sched[1].failed = {1}
    /\ sched[1].attempted[1] = 1
    /\ sched[1].attempted[2] = 1

\* C3: submit() on a Submission whose publish_date is not strictly before
\* the current time ends with an AssertionError at once: no message.send(),
\* and the Submission table is left as it was.
C3_PublishDateGuard ==
    [][\A m \in Subms :
          (SubmitCall(1, m) /\ ~(submission[m].publish_date < now)) =>
              /\ sched'[1].pc = "idle"
              /\ sched'[1].result = "AssertionError"
              /\ UNCHANGED <<submission, sends>>]_vars

\* A direct submit() call ended with the AssertionError, and nothing was sent
\* for the Submission that is not yet due.
C3_Witness ==
    /\ sched[1].entry = "submit"
    /\ sched[1].result = "AssertionError"
    /\ \E m \in Subms : /\ ~(submission[m].publish_date < now)
                        /\ \A s \in Subs : sends[m][s] = 0
                        /\ ~submission[m].sent

\* C4: a submit_queue() run calls submit() on the Submissions that, when it
\* started, were prepared, not sent, not sending and had a publish_date
\* strictly in the past, and touches no other: the ones selected are exactly
\* those, all of them have been submitted when the run turns to the mailbox,
\* and the others keep their row and their send counts.
C4_QueueSelection ==
    (sched[1].entry = "submit_queue" /\ sched[1].pc # "idle") =>
        LET p == sched[1]
            due == DueAt(p.rows0, p.t0)
        IN  /\ p.submitted \cup {p.todo[i].id : i \in DOMAIN p.todo} = due
            /\ p.submitted \cap {p.todo[i].id : i \in DOMAIN p.todo} = {}
            /\ p.pc = "sending" => p.obj.id \in p.submitted
            /\ p.pc = "scan" => p.submitted = due
            /\ \A m \in Subms \ due : /\ submission[m] = p.rows0[m]
                                      /\ sends[m] = p.sends0[m]

\* A run has submitted Submission 1 and left Submission 2 alone, which was
\* prepared and past its publish_date but in flight.
C4_Witness ==
    /\ sched[1].entry = "submit_queue"
    /\ sched[1].pc = "scan"
    /\ sched[1].submitted = {1}
    /\ sched[1].rows0[2].prepared
    /\ sched[1].rows0[2].sending
    /\ sched[1].rows0[2].publish_date < sched[1].t0

\* The step in which the submit_queue() run of scheduler 1 returns.
QueueReturns ==
    /\ sched[1].entry = "submit_queue"
    /\ sched[1].pc # "idle"
    /\ sched'[1].pc = "idle"
    /\ sched'[1].result = "returned"

\* C5: when submit_queue() returns, every Submission that was due when the
\* run started is persisted with sent=true and sending=false, and the run has
\* called message.send() exactly once for each of its eligible subscribers.
C5_QueueRun ==
    [][QueueReturns =>
          \A m \in DueAt(sched[1].rows0, sched[1].t0) :
              /\ submission'[m].sent
              /\ ~submission'[m].sending
              /\ \A s \in Subs :
                    sends'[m][s] - sched[1].sends0[m][s] =
                        IF s \in EligibleFor(sched[1].rows0[m], sched[1].bounce0)
                        THEN 1 ELSE 0]_vars

\* A run has returned after it sent Submission 1 to both of its subscribers.
C5_Witness ==
    /\ sched[1].entry = "submit_queue"
    /\ sched[1].result = "returned"
    /\ submission[1].sent
    /\ ~submission[1].sending
    /\ sends[1][1] = 1
    /\ sends[1][2] = 1

\* C6: the suppression query returns the Subscriptions of the queryset that
\* are subscribed and have no hard Bounce; soft Bounces, however many, do not
\* exclude a Subscription.
C6_Suppression ==
    /\ \A n \in Newsletters :
          get_subscriptions(n) =
              {s \in Subs : /\ subscription[s].exists
                            /\ SubNewsletter(s) = n
                            /\ subscription[s].subscribed
                            /\ ~\E i \in DOMAIN bounce :
                                    bounce[i].subscription = s /\ bounce[i].hard}
    /\ \A m \in Subms :
          subscribed(submission[m].subscriptions) =
              EligibleFor(submission[m], Len(bounce))

\* Subscription 2 is subscribed, has a soft Bounce and no hard one, and is
\* returned; Subscription 1 is not subscribed and has a Bounce.
C6_Witness ==
    /\ subscription[2].subscribed
    /\ \E i \in DOMAIN bounce : bounce[i].subscription = 2 /\ ~bounce[i].hard
    /\ 2 \in get_subscriptions(SubNewsletter(2))
    /\ ~subscription[1].subscribed
    /\ \E i \in DOMAIN bounce : bounce[i].subscription = 1

----------------------------------------------------------------------------
(* Properties of the mailbox scan (specification SpecScan).                *)

\* The header blocks of the delivery-status part of a mail.
Blocks(msgobj) == IF msgobj.ds = Absent THEN <<>> ELSE msgobj.ds[1]

\* C7: every Bounce the scan creates is hard exactly when its status starts
\* with "5" and is not "5.2.2" (so 5.2.2, 2.x.x and 4.x.x are soft and any
\* other 5.x.x is hard), and its status_code is the status recovered from the
\* mail, a Status field of its delivery-status part.
C7_Classification ==
    \A i \in DOMAIN bounce :
        LET b == bounce[i]
            st == b.status_code
        IN  /\ b.hard <=> (/\ st # <<>>
                           /\ st[1] = "5"
                           /\ st # <<"5", ".", "2", ".", "2">>)
            /\ st = Extract(b.content).status
            /\ \E k \in DOMAIN Blocks(b.content) :
                  Blocks(b.content)[k].status = Some(st)

\* The scan has created a soft Bounce for a 5.2.2 mail and a hard one for a
\* 5.1.1 mail.
C7_Witness ==
    /\ \E i \in DOMAIN bounce :
          bounce[i].status_code = MAILBOX_FULL /\ ~bounce[i].hard
    /\ \E i \in DOMAIN bounce :
          bounce[i].status_code = STATUS_511 /\ bounce[i].hard

\* The text s holds a '+', later a '=' and later a '@', with at least one
\* character between them.
HasVerpPattern(s) ==
    \E i, j, k \in 1..Len(s) :
        /\ s[i] = "+" /\ s[j] = "=" /\ s[k] = "@"
        /\ i + 1 < j
        /\ j + 1 < k

\* A recipient field as the scan reads it: stripped, without 'rfc822;'.
CleanRecipient(field) == RemoveAll(Strip(field[1]), RFC822)

\* The address that a block gives: its Original-Recipient when it has one,
\* else its Final-Recipient, else none.
BlockRecipient(b) ==
    IF b.orig # Absent THEN CleanRecipient(b.orig)
    ELSE IF b.final # Absent THEN CleanRecipient(b.final)
    ELSE <<>>

\* C9: for a mail whose To header matches the VERP pattern, the address is
\* the decoded user@domain; a To header lacking the +user=domain@ pattern is
\* not decoded; and for a mail that is not decoded the address is taken from
\* the delivery-status part: the recipient of the first block that gives one,
\* Original-Recipient before Final-Recipient.
C9_RecipientRecovery ==
    sched[1].num # 0 =>
        LET p == sched[1]
            to == p.msgobj.to[1]
            res == verp_re_match(to)
            blocks == Blocks(p.msgobj)
        IN  /\ res # Absent => p.addr = res[1].user \o <<"@">> \o res[1].domain
            /\ to = <<"x", "+", "u", "=", "h", "@", "b">> => p.addr = <<"u", "@", "h">>
            /\ ~HasVerpPattern(to) => res = Absent
            /\ res = Absent =>
                  /\ \/ p.addr = <<>>
                     \/ \E k \in DOMAIN blocks : p.addr = BlockRecipient(blocks[k])
                  /\ \A k \in DOMAIN blocks :
                        (/\ BlockRecipient(blocks[k]) # <<>>
                         /\ \A j \in 1..(k - 1) : BlockRecipient(blocks[j]) = <<>>)
                            => p.addr = BlockRecipient(blocks[k])

\* A mail whose To header is the plain bounce address and whose block holds
\* both recipient fields was handled: the address is the Original-Recipient.
C9_Witness ==
    /\ sched[1].num # 0
    /\ sched[1].msgobj.to = Some(BounceEmail)
    /\ Len(Blocks(sched[1].msgobj)) = 1
    /\ Blocks(sched[1].msgobj)[1].orig = Some(RFC822 \o <<"U", "@", "h">>)
    /\ Blocks(sched[1].msgobj)[1].final # Absent
    /\ sched[1].addr = <<"U", "@", "h">>

----------------------------------------------------------------------------
(* Properties of the VERP codec (specification SpecVerp).                  *)

\* C8: for every bounce address a@b and every recipient u@h with u and h
\* free of '+', '=' and '@', decoding the encoded address a+u=h@b yields
\* user u and domain h.
C8_RoundTrip ==
    verp.pc = "decoded" => verp.decoded = Some([user |-> verp.u, domain |-> verp.h])

----------------------------------------------------------------------------
(* Properties of the subscription requests (specification SpecSub).        *)

\* C10: update('subscribe') or update('update') on a Subscription whose row
\* is not subscribed (never subscribed, or unsubscribed) persists
\* subscribed=true, unsubscribed=false and subscribe_date=now;
\* update('unsubscribe') on a Subscription whose row is not unsubscribed
\* persists subscribed=false, unsubscribed=true and unsubscribe_date=now.
C10_Transitions ==
    [][\A i \in Insts : \A action \in Actions :
          Update(i, action) =>
              LET old == subscription[inst[i].sub]
                  new == subscription'[inst[i].sub]
              IN  /\ (action \in {"subscribe", "update"} /\ ~old.subscribed) =>
                        /\ new.subscribed
                        /\ ~new.unsubscribed
                        /\ new.subscribe_date = Some(now)
                  /\ (action = "unsubscribe" /\ ~old.unsubscribed) =>
                        /\ ~new.subscribed
                        /\ new.unsubscribed
                        /\ new.unsubscribe_date = Some(now)]_vars

\* Subscription 1 was unsubscribed at time 0 and subscribed again at time 1.
C10_Witness ==
    /\ subscription[1].subscribed
    /\ ~subscription[1].unsubscribed
    /\ subscription[1].unsubscribe_date = Some(0)
    /\ subscription[1].subscribe_date = Some(1)

\* The instance i holds what is persisted for its Subscription: it was
\* loaded or saved after the last change of the row.
InSync(i) == inst[i].pk /\ RowOf(inst[i]) = subscription[inst[i].sub]

----------------------------------------------------------------------------
(* Properties of save() on assigned identity fields (specification         *)
(* SpecSave).                                                              *)

\* Instance i is saved in this step, directly or through update().
Persists(i) == Save(i) \/ \E action \in Actions : Update(i, action)

\* Exactly one of the linked account and the standalone e-mail is set.
ExactlyOneIdentity(o) == o.user # o.email_field

\* What C12 states of the save of instance i, with exception the error that
\* an invalid identity raises.
SaveValidates(i, exception) ==
    Persists(i) =>
        IF ExactlyOneIdentity(inst[i])
        THEN /\ inst'[i].raised = "none"
             /\ subscription'[inst[i].sub].exists
             /\ subscription'[inst[i].sub].user = inst[i].user
             /\ subscription'[inst[i].sub].email_field = inst[i].email_field
        ELSE /\ inst'[i].raised = exception
             /\ subscription' = subscription

\* C12, as the specification states it: saving a Subscription with both a
\* linked account and a standalone e-mail, or with neither, fails with a
\* ValidationError before anything is written; with exactly one of the two
\* the row is written.
C12_AsStated == [][\A i \in Editors : SaveValidates(i, "ValidationError")]_vars

\* C12, amended: saving a Subscription with both a linked account and a
\* standalone e-mail, or with neither, fails with an AssertionError before
\* anything is written (the persisted row and its dates are unchanged); with
\* exactly one of the two the row is written.
C12_Validation == [][\A i \in Editors : SaveValidates(i, "AssertionError")]_vars

\* A subscribed Subscription was given a linked account besides its e-mail
\* and saved: the save raised and the row still holds the e-mail alone.
C12_Witness ==
    /\ inst[1].last = "save"
    /\ inst[1].raised = "AssertionError"
    /\ inst[1].user
    /\ inst[1].email_field
    /\ subscription[1].subscribed
    /\ ~subscription[1].user

----------------------------------------------------------------------------
(* Further properties of the mailbox scan (specification SpecScan).        *)

\* An address can be recovered from the mail: its To header matches the VERP
\* pattern, or a block of its delivery-status part gives a recipient.
AddressRecoverable(msgobj) ==
    \/ msgobj.to # Absent /\ verp_re_match(msgobj.to[1]) # Absent
    \/ \E k \in DOMAIN Blocks(msgobj) : BlockRecipient(Blocks(msgobj)[k]) # <<>>

\* A status can be recovered from the mail: a block of its delivery-status
\* part holds a Status.
StatusRecoverable(msgobj) ==
    \E k \in DOMAIN Blocks(msgobj) :
        /\ Blocks(msgobj)[k].status # Absent
        /\ Blocks(msgobj)[k].status[1] # <<>>

\* The mail that the scan of scheduler 1 handles next.
NextMail == inbox[Head(sched[1].scanList)].msg

\* C13: a mail from which the address or the status cannot be recovered is
\* skipped: no Bounce is created, the mail is neither copied to the archive
\* nor flagged deleted, and the scan goes on with the remaining mails.
C13_Skipped ==
    [][(/\ ScanMessage(1, "ok")
        /\ ~(AddressRecoverable(NextMail) /\ StatusRecoverable(NextMail)))
          => /\ bounce' = bounce
             /\ archive' = archive
             /\ inbox' = inbox
             /\ sched'[1].pc = "scan"
             /\ sched'[1].scanList = Tail(sched[1].scanList)]_vars

\* The same text in upper case, for the letters that the e-mails use.
Upper(s) ==
    [i \in DOMAIN s |-> IF s[i] = "u" THEN "U"
                        ELSE IF s[i] = "v" THEN "V"
                        ELSE IF s[i] = "h" THEN "H"
                        ELSE s[i]]

\* C14: for every mail whose address and status are both recovered, the scan
\* (with the IMAP server accepting its commands) creates exactly one Bounce
\* for each Subscription whose e-mail equals the address whatever the case,
\* in every newsletter, and no other Bounce; then the mail is copied to the
\* archive folder and flagged deleted in the inbox, also when no Subscription
\* matched.
C14_BouncePerSubscription ==
    [][(/\ ScanMessage(1, "ok")
        /\ NextMail.to # Absent
        /\ AddressRecoverable(NextMail)
        /\ StatusRecoverable(NextMail))
          => LET num == Head(sched[1].scanList)
                 addr == sched'[1].addr
                 created == {i \in DOMAIN bounce' : i > Len(bounce)}
             IN  /\ \A i \in DOMAIN bounce : bounce'[i] = bounce[i]
                 /\ \A s \in Subs :
                       Cardinality({i \in created : bounce'[i].subscription = s}) =
                           IF subscription[s].exists /\ Upper(SubEmail(s)) = Upper(addr)
                           THEN 1 ELSE 0
                 /\ \A i \in created : /\ bounce'[i].content = NextMail
                                       /\ bounce'[i].status_code = sched'[1].status
                 /\ archive' = Append(archive, NextMail)
                 /\ inbox' = [inbox EXCEPT ![num].deleted = TRUE]
                 /\ sched'[1].pc = "scan"]_vars

\* One mail was handled and archived, and it left one Bounce for
\* Subscription 1 (u@h, newsletter 1) and one for Subscription 2 (U@h,
\* newsletter 2).
C14_Witness ==
    /\ Len(archive) = 1
    /\ inbox[1].deleted
    /\ Len(bounce) = 2
    /\ bounce[1].subscription = 1
    /\ bounce[2].subscription = 2
    /\ bounce[1].content = archive[1]
    /\ bounce[2].content = archive[1]
    /\ SubNewsletter(1) # SubNewsletter(2)

\* C15: across any sequence of scans, scans that an IMAP error aborted
\* part-way included, one bounce mail creates at most one Bounce for a
\* Subscription (the mails of the inbox differ from one another).
C15_OneBouncePerMail ==
    \A i, j \in DOMAIN bounce :
        (/\ bounce[i].subscription = bounce[j].subscription
         /\ bounce[i].content = bounce[j].content)
            => i = j

----------------------------------------------------------------------------
(* Properties of a sequence of submit_queue() runs (specification          *)
(* SpecRuns).                                                              *)

\* The step of p that ends the loop of submit() normally.
LoopDone(p) ==
    /\ sched[p].pc = "sending"
    /\ sched[p].recipients = <<>>

\* C16: in every submit_queue() run the bounce scan comes after the
\* submitting: the scan starts only when every selected Submission was
\* submitted, nothing is sent or saved on a Submission once it started, and
\* a run returns normally only through check_bounces() (a run that an
\* exception ends does not reach the scan).  A Subscription with a hard
\* Bounce is sent nothing any more, in this run or a later one, while a
\* Subscription of the recipients that is subscribed and has soft Bounces
\* only is sent the Submission.
C16_ScanThenSuppress ==
    [][\A p \in Schedulers :
         /\ (sched[p].pc # "scan" /\ sched'[p].pc = "scan")
                => sched[p].pc = "queue" /\ sched[p].todo = <<>>
         /\ sched[p].pc = "scan" => sends' = sends /\ submission' = submission
         /\ (sched[p].pc # "idle" /\ sched'[p].pc = "idle"
                                  /\ sched'[p].result = "returned")
                => \/ sched[p].pc = "scan"
                   \/ sched[p].pc = "queue" /\ sched[p].todo = <<>>
         /\ \A m \in Subms, s \in Subs :
                sends'[m][s] > sends[m][s] => num_hard_bounces(s) = 0
         /\ LoopDone(p) =>
                \A s \in submission[sched[p].obj.id].subscriptions :
                    (/\ subscription[s].subscribed
                     /\ num_hard_bounces(s) = 0
                     /\ num_bounces(s) > 0) => sched[p].attempted[s] = 1
      ]_vars

\* A run that started after a scan had recorded Bounces has sent a Submission
\* and left out a subscribed recipient because of its hard Bounce.
C16_Witness ==
    \E p \in Schedulers :
        /\ LoopDone(p)
        /\ sched[p].entry = "submit_queue"
        /\ sched[p].bounce0 > 0
        /\ \E s \in submission[sched[p].obj.id].subscriptions :
              /\ subscription[s].subscribed
              /\ num_hard_bounces(s) > 0
              /\ sched[p].attempted[s] = 0

\* C17: the recipients of a Submission are fixed when it is created:
\* from_message() attaches the Subscriptions of the newsletter that are
\* subscribed and have no hard Bounce at that time, the attached set never
\* changes afterwards, and a completed submit() has sent to exactly the
\* attached Subscriptions that are subscribed and have no hard Bounce when
\* it is called; nothing is ever sent to a Subscription outside the
\* attached set, one that subscribed after from_message() included.
C17_Snapshot ==
    [][/\ \A m \in Subms :
            IF submission[m] = NoSubmission
            THEN submission'[m] # NoSubmission =>
                    submission'[m].subscriptions =
                        {s \in Subs : /\ subscription[s].exists
                                      /\ SubNewsletter(s) = submission'[m].newsletter
                                      /\ subscription[s].subscribed
                                      /\ num_hard_bounces(s) = 0}
            ELSE submission'[m].subscriptions = submission[m].subscriptions
       /\ \A m \in Subms, s \in Subs :
            sends'[m][s] > sends[m][s] => s \in submission[m].subscriptions
       /\ \A p \in Schedulers :
            LoopDone(p) =>
                \A s \in Subs :
                    sched[p].attempted[s] =
                        IF /\ s \in submission[sched[p].obj.id].subscriptions
                           /\ subscription[s].subscribed
                           /\ num_hard_bounces(s) = 0
                        THEN 1 ELSE 0
      ]_vars

\* The Submission created by from_message() was sent to its recipients, and
\* not to a Subscription of the newsletter that is subscribed by now but
\* was not when the Submission was created.
C17_Witness ==
    \E p \in Schedulers :
        /\ LoopDone(p)
        /\ sched[p].obj.id = 2
        /\ \E s \in Subs : sched[p].attempted[s] = 1
        /\ \E s \in Subs :
              /\ s \notin submission[2].subscriptions
              /\ subscription[s].exists
              /\ SubNewsletter(s) = submission[2].newsletter
              /\ subscription[s].subscribed
              /\ num_hard_bounces(s) = 0
              /\ sched[p].attempted[s] = 0

\* C18: every step that writes the row of a Submission (the save() of
\* from_message(), of a caller that assigned any newsletter to the object,
\* and the saves of submit()) leaves the persisted newsletter equal to the
\* newsletter of the Submission's message.
C18_NewsletterFromMessage ==
    [][\A m \in Subms :
         submission'[m] # submission[m] =>
            /\ submission'[m].message = SubmMessage(m)
            /\ submission'[m].newsletter = MessageNewsletter(submission'[m].message)
      ]_vars

\* Submission 2 went through from_message(), the save of a caller and the
\* saves of submit().
C18_Witness ==
    /\ submission[2].prepared
    /\ submission[2].sent
    /\ submission[2].newsletter = MessageNewsletter(SubmMessage(2))

\* C19: when submit() has gone through its loop on a Submission that has no
\* recipients attached, send_message() was called for every Subscription
\* of the Submission's newsletter that is subscribed and has no hard
\* Bounce.
C19_FindsSubscribers ==
    \A p \in Schedulers :
        (LoopDone(p) /\ submission[sched[p].obj.id].subscriptions = {}) =>
            \A s \in get_subscriptions(submission[sched[p].obj.id].newsletter) :
                sched[p].attempted[s] = 1

\* C20: over any sequence of submit_queue() runs of one scheduler, also
\* with runs that an exception ended within the loop of submit(), a
\* Submission is sent to each Subscription at most once.
C20_AtMostOnce ==
    \A m \in Subms, s \in Subs : sends[m][s] <= 1

----------------------------------------------------------------------------
(* Properties of two interleaved schedulers (specification SpecRace).      *)

\* Scheduler p is in the loop of submit() on Submission m.
Submitting(p, m) == sched[p].pc = "sending" /\ sched[p].obj.id = m

\* C21: a scheduler submits every Submission that its query selected as due,
\* whatever another scheduler did to the row since: while it is in the loop
\* the row says sending or sent (the flags are persisted), its loop calls
\* send_message() once for every recipient, and two schedulers that are in
\* the loop on the same Submission each send to the recipients, so that the
\* sends add up.
C21_Race ==
    \A p \in Schedulers : \A m \in Subms :
        Submitting(p, m) =>
            /\ Due(sched[p].rows0[m], sched[p].t0)
            /\ submission[m].sending \/ submission[m].sent
            /\ LoopDone(p) =>
                  \A s \in SendRecipients(m) : sched[p].attempted[s] = 1
            /\ \A q \in Schedulers \ {p} :
                  Submitting(q, m) =>
                      \A s \in Subs :
                          sends[m][s] >= sched[p].attempted[s] + sched[q].attempted[s]

\* Both schedulers selected Submission 1 while its row was not in progress,
\* both are in the loop of submit() on it, and a Subscription was sent it
\* twice.
C21_Witness ==
    /\ \A p \in Schedulers :
          /\ Submitting(p, 1)
          /\ ~sched[p].rows0[1].sending
          /\ ~sched[p].rows0[1].sent
    /\ submission[1].sending
    /\ \E s \in Subs : sends[1][s] = 2

----------------------------------------------------------------------------
(* Properties of a scheduler that may be killed (specification SpecCrash). *)

\* The row of Submission m says in progress while no process is in the loop
\* of submit() on it.
Stuck(m) ==
    /\ submission[m].sending
    /\ ~submission[m].sent
    /\ \A p \in Schedulers : ~Submitting(p, m)

\* C22: send_message() is called only while the row says sending=true; a
\* process killed in the loop of submit() leaves the row at sending=true,
\* sent=false; and a Submission left so stays so: no submit_queue() run
\* selects it, submits it or sends it, and its row does not change.
C22_Stuck ==
    [][\A m \in Subms :
         /\ (\E s \in Subs : sends'[m][s] > sends[m][s]) =>
                submission[m].sending /\ ~submission[m].sent
         /\ \A p \in Schedulers :
                (Submitting(p, m) /\ sched'[p].result = "killed") =>
                    /\ submission'[m].sending
                    /\ ~submission'[m].sent
                    /\ Stuck(m)'
         /\ Stuck(m) =>
                /\ Stuck(m)'
                /\ submission'[m] = submission[m]
                /\ sends'[m] = sends[m]
                /\ \A p \in Schedulers :
                      \A i \in DOMAIN sched'[p].todo : sched'[p].todo[i].id # m
      ]_vars

\* Submission 1 was left in progress by a killed process after a first
\* send; the scheduler made a run after that, which returned without
\* touching it.
C22_Witness ==
    /\ Stuck(1)
    /\ sends[1][1] = 1
    /\ sends[1][2] = 0
    /\ sched[1].pc = "idle"
    /\ sched[1].entry = "submit_queue"
    /\ sched[1].result = "returned"

----------------------------------------------------------------------------
(* Further properties of the subscription requests.                        *)

\* C23: after update(action) on any instance of a Subscription, one loaded
\* before another instance changed the row included, the persisted row is
\* subscribed (subscribed=true, unsubscribed=false) for subscribe and
\* update, and unsubscribed (subscribed=false, unsubscribed=true) for
\* unsubscribe.
C23_TargetReached ==
    [][\A i \in Insts : \A action \in Actions :
          Update(i, action) =>
              LET new == subscription'[inst[i].sub]
              IN  IF action \in {"subscribe", "update"}
                  THEN new.subscribed /\ ~new.unsubscribed
                  ELSE ~new.subscribed /\ new.unsubscribed]_vars

\* C24: no persisted Subscription has subscribed and unsubscribed both
\* true, whatever flags the callers assigned before save() and whichever
\* instance, new, fresh or stale, was saved.
C24_NotBoth ==
    \A s \in Subs :
        subscription[s].exists =>
            ~(subscription[s].subscribed /\ subscription[s].unsubscribed)

\* An instance was saved with both flags assigned true, at time 1, on a row
\* that was subscribed at time 0: the row is unsubscribed.
C24_Witness ==
    /\ inst[1].last = "save(both)"
    /\ inst[1].at = 1
    /\ subscription[1].subscribe_date = Some(0)
    /\ subscription[1].unsubscribe_date = Some(1)
    /\ subscription[1].unsubscribed
    /\ ~subscription[1].subscribed

----------------------------------------------------------------------------
(* The recipient address of a delivery-status block.                       *)

\* The bare address of a recipient field: the address type "rfc822;" and
\* the whitespace around the address taken off.
BareAddress(field) == Strip(RemoveAll(Strip(field[1]), RFC822))

\* The bare address that a block gives: of its Original-Recipient when it
\* has one, else of its Final-Recipient, else none.
BlockBareAddress(b) ==
    IF b.orig # Absent THEN BareAddress(b.orig)
    ELSE IF b.final # Absent THEN BareAddress(b.final)
    ELSE <<>>

\* C25: for a mail whose To header is not decoded, the address recovered is
\* the bare address of the first block that gives one: "rfc822; u@h" gives
\* u@h.
C25_BareAddress ==
    (sched[1].num # 0 /\ sched[1].msgobj.to # Absent) =>
        LET p == sched[1]
            blocks == Blocks(p.msgobj)
        IN  verp_re_match(p.msgobj.to[1]) = Absent =>
                \A k \in DOMAIN blocks :
                    (/\ BlockBareAddress(blocks[k]) # <<>>
                     /\ \A j \in 1..(k - 1) : BlockBareAddress(blocks[j]) = <<>>)
                        => p.addr = BlockBareAddress(blocks[k])

----------------------------------------------------------------------------
(* Properties of requests that follow a hard Bounce (specification         *)
(* SpecSuppress).                                                          *)

\* The elements of the sequence q.
Elements(q) == {q[k] : k \in DOMAIN q}

\* C26: a Subscription that has a hard Bounce keeps it, whatever requests
\* are made on it, and from then on no submit() has it among its recipients
\* and nothing is sent to it.
C26_Permanent ==
    [][\A s \in Subs :
         num_hard_bounces(s) > 0 =>
            /\ num_hard_bounces(s)' > 0
            /\ \A m \in Subms : sends'[m][s] = sends[m][s]
            /\ \A p \in Schedulers :
                  (sched[p].pc # "sending" /\ sched'[p].pc = "sending") =>
                      s \notin Elements(sched'[p].recipients)
      ]_vars

\* Subscription 1 got a hard Bounce, unsubscribed at time 1 (requests are
\* made after the Bounce only) and subscribed again; Submission 2, which it
\* is a recipient of, was submitted afterwards and not sent to it.
C26_Witness ==
    /\ LoopDone(1)
    /\ sched[1].obj.id = 2
    /\ 1 \in submission[2].subscriptions
    /\ num_hard_bounces(1) > 0
    /\ subscription[1].subscribed
    /\ subscription[1].unsubscribe_date = Some(1)
    /\ sched[1].attempted[1] = 0

----------------------------------------------------------------------------
(* The dates of a Subscription (specification SpecSub).                    *)

====
